---- MODULE Spec2Model ----
(***************************************************************************)
(* Recipe API: the recipe and ingredient viewsets of app/recipe/views.py   *)
(* over the stored recipes, ingredients and recipe-ingredient links.       *)
(*                                                                         *)
(* A client sends a request (SendRequest), the viewset's handler for it     *)
(* answers it (one action per handler, from permission check to response,  *)
(* every write it makes included), and the client takes the response       *)
(* (ReceiveResponse).  Requests are handled one at a time.                 *)
(*                                                                         *)
(* views.py is modelled from its source.  The serializers and the models   *)
(* (recipe/serializers.py, core/models.py) are not among the source files; *)
(* what they do is modelled from the specification and from the API tests  *)
(* and is marked "serializer" or "model" below.                            *)
(***************************************************************************)
EXTENDS Integers, Sequences, FiniteSets, TLC

VARIABLES
    recipes,           \* Recipe table: id -> [user, title, image, ingredients]
    ingredients,       \* Ingredient table: id -> [user, name]
    nextRecipeId,      \* next primary key of the Recipe table
    nextIngredientId,  \* next primary key of the Ingredient table
    request,           \* the request in flight, NoRequest when there is none
    resp               \* the response to it, NoResponse until it is handled

vars == <<recipes, ingredients, nextRecipeId, nextIngredientId, request, resp>>
db == <<recipes, ingredients, nextRecipeId, nextIngredientId>>

---------------------------------------------------------------------------
(* Bounds *)

MaxRecipes == 2
MaxIngredients == 2
MaxQsLen == 3

---------------------------------------------------------------------------
(* Values *)

Users == {"u1", "u2"}
Anon == "anonymous"

Titles == {"t1", "t2"}
Names == {"a", "b"}
Images == {"img1", "img2"}
NotImage == "notimage"
NoImage == "noimage"
Missing == "missing"

Digits == {"1", "2"}
Chars == Digits \cup {",", "a"}

RecipePks == 1..MaxRecipes
IngredientPks == 1..MaxIngredients

StringsUpTo(n) == UNION {[1..k -> Chars] : k \in 0..n}
NameSeqs == UNION {[1..k -> Names] : k \in 0..2}

\* An optional value (a key of the query string or of the payload that may be
\* absent): <<>> when absent, <<v>> when given with value v.
Absent == <<>>
Given(v) == <<v>>
Optional(S) == {Absent} \cup {Given(v) : v \in S}

NoPayload == [none |-> TRUE]
NoBody == [none |-> TRUE]

Range(s) == {s[i] : i \in DOMAIN s}

---------------------------------------------------------------------------
(* RecipeViewSet._params_to_ints: str.split(",") and int() *)

RECURSIVE split(_, _)
split(s, cur) ==
    IF s = <<>> THEN <<cur>>
    ELSE IF Head(s) = "," THEN <<cur>> \o split(Tail(s), <<>>)
    ELSE split(Tail(s), Append(cur, Head(s)))

DigitValue(c) == IF c = "1" THEN 1 ELSE 2

\* int(str_id) raises ValueError on the empty string and on a non-digit.
IsIntLiteral(tok) == tok # <<>> /\ \A i \in DOMAIN tok : tok[i] \in Digits

RECURSIVE int(_)
int(tok) ==
    IF tok = <<>> THEN 0
    ELSE 10 * int(SubSeq(tok, 1, Len(tok) - 1)) + DigitValue(tok[Len(tok)])

params_to_ints_lenient(qs) ==
    LET toks == SelectSeq(split(qs, <<>>), IsIntLiteral)
    IN [raised |-> FALSE, value |-> [i \in DOMAIN toks |-> int(toks[i])]]

params_to_ints(qs) ==
    LET toks == split(qs, <<>>)
    IN IF \E i \in DOMAIN toks : ~IsIntLiteral(toks[i])
       THEN [raised |-> TRUE, value |-> <<>>]
       ELSE [raised |-> FALSE, value |-> [i \in DOMAIN toks |-> int(toks[i])]]

---------------------------------------------------------------------------
(* Querysets: sequences of rows, a row being a recipe id *)

RECURSIVE SetToSeqAsc(_)
SetToSeqAsc(S) ==
    IF S = {} THEN <<>>
    ELSE LET m == CHOOSE x \in S : \A y \in S : x <= y
         IN <<m>> \o SetToSeqAsc(S \ {m})

\* Recipe.objects.all()
Recipe_objects_all == SetToSeqAsc(DOMAIN recipes)

Repeat(x, n) == [i \in 1..n |-> x]

\* filter(ingredients__id__in=ids): the join over the link table yields one
\* row per link of the recipe to a listed ingredient.
RECURSIVE filter_ingredients_in(_, _)
filter_ingredients_in(rows, ids) ==
    IF rows = <<>> THEN <<>>
    ELSE Repeat(Head(rows),
                Cardinality(recipes[Head(rows)].ingredients \cap Range(ids)))
         \o filter_ingredients_in(Tail(rows), ids)

\* filter(user=request.user)
filter_user(rows, u) == SelectSeq(rows, LAMBDA r : recipes[r].user = u)

\* order_by("-id")
RECURSIVE InsertDesc(_, _)
InsertDesc(x, s) ==
    IF s = <<>> THEN <<x>>
    ELSE IF x >= Head(s) THEN <<x>> \o s
    ELSE <<Head(s)>> \o InsertDesc(x, Tail(s))

RECURSIVE order_by_desc_id(_)
order_by_desc_id(rows) ==
    IF rows = <<>> THEN <<>>
    ELSE InsertDesc(Head(rows), order_by_desc_id(Tail(rows)))

keep_duplicates(rows) == rows

\* distinct()
RECURSIVE distinct(_)
distinct(rows) ==
    IF rows = <<>> THEN <<>>
    ELSE <<Head(rows)>> \o distinct(SelectSeq(Tail(rows), LAMBDA r : r # Head(rows)))

\* `if ingredients:` is false for None and for the empty string.
Truthy(q) == q # Absent /\ q[1] # <<>>

Rows(rows) == [raised |-> FALSE, value |-> rows]
Raised == [raised |-> TRUE, value |-> <<>>]

get_queryset_no_user_filter(u, q) ==
    IF Truthy(q)
    THEN LET ids == params_to_ints(q[1])
         IN IF ids.raised THEN Raised
            ELSE Rows(distinct(order_by_desc_id(
                     filter_ingredients_in(Recipe_objects_all, ids.value))))
    ELSE Rows(distinct(order_by_desc_id(Recipe_objects_all)))

\* RecipeViewSet.get_queryset: the rows, or the ValueError of _params_to_ints.
get_queryset(u, q) ==
    IF Truthy(q)
    THEN LET ids == params_to_ints(q[1])
         IN IF ids.raised THEN Raised
            ELSE Rows(distinct(order_by_desc_id(filter_user(
                     filter_ingredients_in(Recipe_objects_all, ids.value), u))))
    ELSE Rows(distinct(order_by_desc_id(filter_user(Recipe_objects_all, u))))

---------------------------------------------------------------------------
(* Requests and responses *)

NoRequest ==
    [view |-> "none", op |-> "none", user |-> Anon, pk |-> 0, q |-> Absent,
     payload |-> NoPayload]
NoResponse == [status |-> 0, body |-> NoBody]

Req(view, op, u, pk, q, payload) ==
    [view |-> view, op |-> op, user |-> u, pk |-> pk, q |-> q, payload |-> payload]

\* The handler of (view, op) has a request to answer.
Pending(view, op) ==
    /\ request.view = view
    /\ request.op = op
    /\ resp = NoResponse

Reply(status, body) ==
    /\ resp' = [status |-> status, body |-> body]
    /\ UNCHANGED request

---------------------------------------------------------------------------
(* Permissions and object lookup *)

AllowAny == {}

\* RecipeViewSet.permission_classes
RecipeViewSet_permission_classes == {"IsAuthenticated"}

\* IngredientViewSet.permission_classes
IngredientViewSet_permission_classes == {"IsAuthenticated"}

\* IsAuthenticated.has_permission: the request carries the token of a user.
has_permission(classes, u) ==
    \A p \in classes : p = "IsAuthenticated" => u \in Users

ModelViewSet_actions ==
    {"list", "create", "retrieve", "update", "partial_update", "destroy"}

\* The handlers IngredientViewSet inherits from its mixins.
IngredientViewSet_actions == {"destroy", "update", "partial_update", "list"}

\* self.get_object(): the row of get_queryset() with this primary key, or 404;
\* an exception raised by get_queryset() is answered with 500.
get_object(u, q, pk) ==
    LET qs == get_queryset(u, q)
    IN IF qs.raised THEN 500
       ELSE IF pk \in Range(qs.value) THEN 200
       ELSE 404

\* The status that ends a recipe detail request before its handler's own
\* code: 401 without permission, 500 or 404 from get_object; else 0.
RecipeRefused ==
    IF ~has_permission(RecipeViewSet_permission_classes, request.user) THEN 401
    ELSE IF get_object(request.user, request.q, request.pk) # 200
    THEN get_object(request.user, request.q, request.pk)
    ELSE 0

Ingredient_get_queryset_all(u) == DOMAIN ingredients

\* IngredientViewSet.get_queryset, before order_by: the requester's rows.
Ingredient_get_queryset(u) ==
    {i \in DOMAIN ingredients : ingredients[i].user = u}

NameRank(n) == IF n = "a" THEN 1 ELSE 2

\* order_by("-name"): every ordering of the rows by descending name (the order
\* of rows with equal names is not determined).
order_by_desc_name(S) ==
    {s \in [1..Cardinality(S) -> S] :
        /\ \A i, j \in DOMAIN s : i # j => s[i] # s[j]
        /\ \A i, j \in DOMAIN s :
              i < j => NameRank(ingredients[s[i]].name)
                           >= NameRank(ingredients[s[j]].name)}

\* The status that ends an ingredient request before its handler's own code:
\* 401 without permission, 405 when the viewset has no handler for the
\* method, 404 when a detail request names no row of get_queryset(); else 0.
IngredientRefused(detail) ==
    IF ~has_permission(IngredientViewSet_permission_classes, request.user) THEN 401
    ELSE IF request.op \notin IngredientViewSet_actions THEN 405
    ELSE IF detail /\ request.pk \notin Ingredient_get_queryset(request.user) THEN 404
    ELSE 0

\* Serialized recipe (serializer): its id, title, image and ingredient ids.
RecipeData(rs, pk) ==
    [id |-> pk, title |-> rs[pk].title, image |-> rs[pk].image,
     ingredients |-> rs[pk].ingredients]

---------------------------------------------------------------------------
(* Serializer: nested ingredient names (serializer) *)

\* For each name in turn: Ingredient.objects.get_or_create(user=auth_user,
\* name=name), then recipe.ingredients.add(it).  get_or_create raises when
\* the user has several ingredients of that name; what was written before
\* the exception stays written.  full: a new row would exceed MaxIngredients.
RECURSIVE get_or_create_ingredients(_, _, _, _, _)
get_or_create_ingredients(names, u, ings, next, linked) ==
    IF names = <<>>
    THEN [ok |-> TRUE, full |-> FALSE, ings |-> ings, next |-> next,
          linked |-> linked]
    ELSE LET n == Head(names)
             m == {i \in DOMAIN ings : ings[i].user = u /\ ings[i].name = n}
         IN IF Cardinality(m) > 1
            THEN [ok |-> FALSE, full |-> FALSE, ings |-> ings, next |-> next,
                  linked |-> linked]
            ELSE IF m # {}
            THEN get_or_create_ingredients(Tail(names), u, ings, next,
                                           linked \cup m)
            ELSE IF next > MaxIngredients
            THEN [ok |-> FALSE, full |-> TRUE, ings |-> ings, next |-> next,
                  linked |-> linked]
            ELSE get_or_create_ingredients(
                     Tail(names), u, ings @@ (next :> [user |-> u, name |-> n]),
                     next + 1, linked \cup {next})

\* RecipeSerializer.update (serializer), for an `ingredients` key in the
\* payload: instance.ingredients.clear(), then get-or-create and link each name.
update_ingredients(r, names, u, ings, next) ==
    get_or_create_ingredients(names, u, ings, next, {})

perform_create_payload_user(u, payload) ==
    IF payload.user # Missing THEN payload.user ELSE u

\* RecipeViewSet.perform_create: serializer.save(user=self.request.user)
perform_create(u, payload) == u

\* RecipeImageSerializer.is_valid (serializer): the payload is an image file.
is_valid(payload) == payload.image \in Images

---------------------------------------------------------------------------
(* Initial state: empty tables, no request *)

Init ==
    /\ recipes = <<>>
    /\ ingredients = <<>>
    /\ nextRecipeId = 1
    /\ nextIngredientId = 1
    /\ request = NoRequest
    /\ resp = NoResponse

---------------------------------------------------------------------------
(* Client *)

SendRequest(requests) ==
    /\ request = NoRequest
    /\ \E r \in requests : request' = r
    /\ UNCHANGED <<db, resp>>

ReceiveResponse ==
    /\ resp # NoResponse
    /\ request' = NoRequest
    /\ resp' = NoResponse
    /\ UNCHANGED db

---------------------------------------------------------------------------
(* RecipeViewSet handlers *)

\* GET /recipes/
RecipeList ==
    /\ Pending("recipe", "list")
    /\ UNCHANGED db
    /\ IF ~has_permission(RecipeViewSet_permission_classes, request.user)
       THEN Reply(401, NoBody)
       ELSE LET qs == get_queryset(request.user, request.q)
            IN IF qs.raised THEN Reply(500, NoBody)
               ELSE Reply(200, [results |-> qs.value])

\* POST /recipes/
RecipeCreate ==
    /\ Pending("recipe", "create")
    /\ IF ~has_permission(RecipeViewSet_permission_classes, request.user)
       THEN UNCHANGED db /\ Reply(401, NoBody)
       ELSE IF request.payload.title = Missing
       THEN UNCHANGED db /\ Reply(400, NoBody)
       ELSE LET u == request.user
                payload == request.payload
                names == IF payload.ingredients = Absent THEN <<>>
                         ELSE payload.ingredients[1]
                g == get_or_create_ingredients(names, u, ingredients,
                                               nextIngredientId, {})
                new == [user |-> perform_create(u, payload),
                        title |-> payload.title,
                        image |-> NoImage, ingredients |-> g.linked]
                rs == recipes @@ (nextRecipeId :> new)
            IN /\ nextRecipeId <= MaxRecipes
               /\ ~g.full
               /\ recipes' = rs
               /\ ingredients' = g.ings
               /\ nextRecipeId' = nextRecipeId + 1
               /\ nextIngredientId' = g.next
               /\ IF g.ok THEN Reply(201, RecipeData(rs, nextRecipeId))
                  ELSE Reply(500, NoBody)

\* GET /recipes/{pk}/
RecipeRetrieve ==
    /\ Pending("recipe", "retrieve")
    /\ UNCHANGED db
    /\ IF RecipeRefused # 0 THEN Reply(RecipeRefused, NoBody)
       ELSE Reply(200, RecipeData(recipes, request.pk))

\* PUT /recipes/{pk}/ (op = "update") and PATCH /recipes/{pk}/ (op =
\* "partial_update"): UpdateModelMixin.update with partial = FALSE or TRUE.
UpdateRecipe(op) ==
    /\ Pending("recipe", op)
    /\ IF RecipeRefused # 0
       THEN UNCHANGED db /\ Reply(RecipeRefused, NoBody)
       ELSE IF op = "update" /\ request.payload.title = Missing
       THEN UNCHANGED db /\ Reply(400, NoBody)
       ELSE LET pk == request.pk
                payload == request.payload
                r == recipes[pk]
                g == IF payload.ingredients = Absent
                     THEN [ok |-> TRUE, full |-> FALSE, ings |-> ingredients,
                           next |-> nextIngredientId, linked |-> r.ingredients]
                     ELSE update_ingredients(r, payload.ingredients[1],
                                             request.user, ingredients,
                                             nextIngredientId)
                title == IF g.ok /\ payload.title # Missing THEN payload.title
                         ELSE r.title
                rs == [recipes EXCEPT ![pk] =
                          [r EXCEPT !.title = title, !.ingredients = g.linked]]
            IN /\ ~g.full
               /\ recipes' = rs
               /\ ingredients' = g.ings
               /\ nextIngredientId' = g.next
               /\ UNCHANGED nextRecipeId
               /\ IF g.ok THEN Reply(200, RecipeData(rs, pk))
                  ELSE Reply(500, NoBody)

RecipeUpdate == UpdateRecipe("update")

RecipePartialUpdate == UpdateRecipe("partial_update")

\* DELETE /recipes/{pk}/
RecipeDestroy ==
    /\ Pending("recipe", "destroy")
    /\ IF RecipeRefused # 0
       THEN UNCHANGED db /\ Reply(RecipeRefused, NoBody)
       ELSE /\ recipes' = [r \in DOMAIN recipes \ {request.pk} |-> recipes[r]]
            /\ UNCHANGED <<ingredients, nextRecipeId, nextIngredientId>>
            /\ Reply(204, NoBody)

\* RecipeViewSet.upload_image: POST /recipes/{pk}/upload-image/
upload_image ==
    /\ Pending("recipe", "upload_image")
    /\ IF RecipeRefused # 0
       THEN UNCHANGED db /\ Reply(RecipeRefused, NoBody)
       ELSE IF is_valid(request.payload)
       THEN /\ recipes' = [recipes EXCEPT ![request.pk].image = request.payload.image]
            /\ UNCHANGED <<ingredients, nextRecipeId, nextIngredientId>>
            /\ Reply(200, [image |-> request.payload.image])
       ELSE UNCHANGED db /\ Reply(400, [errors |-> "image"])

---------------------------------------------------------------------------
(* IngredientViewSet handlers *)

\* GET /ingredients/
IngredientList ==
    /\ Pending("ingredient", "list")
    /\ UNCHANGED db
    /\ IF IngredientRefused(FALSE) # 0 THEN Reply(IngredientRefused(FALSE), NoBody)
       ELSE \E rows \in order_by_desc_name(Ingredient_get_queryset(request.user)) :
               Reply(200, [results |-> rows])

\* POST /ingredients/: the viewset has no create handler, the answer is 405
\* (the handler below it is CreateModelMixin's, which the viewset lacks).
IngredientCreate ==
    /\ Pending("ingredient", "create")
    /\ IF IngredientRefused(FALSE) # 0
       THEN UNCHANGED db /\ Reply(IngredientRefused(FALSE), NoBody)
       ELSE IF request.payload.name = Missing
       THEN UNCHANGED db /\ Reply(400, NoBody)
       ELSE /\ nextIngredientId <= MaxIngredients
            /\ ingredients' = ingredients @@
                   (nextIngredientId :>
                        [user |-> request.user, name |-> request.payload.name])
            /\ nextIngredientId' = nextIngredientId + 1
            /\ UNCHANGED <<recipes, nextRecipeId>>
            /\ Reply(201, [id |-> nextIngredientId])

\* GET /ingredients/{pk}/: no retrieve handler either, the answer is 405.
IngredientRetrieve ==
    /\ Pending("ingredient", "retrieve")
    /\ UNCHANGED db
    /\ IF IngredientRefused(TRUE) # 0 THEN Reply(IngredientRefused(TRUE), NoBody)
       ELSE Reply(200, [id |-> request.pk, name |-> ingredients[request.pk].name])

\* PUT /ingredients/{pk}/ (op = "update") and PATCH /ingredients/{pk}/ (op =
\* "partial_update").  The serializer accepts any name (serializer): the pair
\* (user, name) is not validated to be unique.
UpdateIngredient(op) ==
    /\ Pending("ingredient", op)
    /\ IF IngredientRefused(TRUE) # 0
       THEN UNCHANGED db /\ Reply(IngredientRefused(TRUE), NoBody)
       ELSE IF op = "update" /\ request.payload.name = Missing
       THEN UNCHANGED db /\ Reply(400, NoBody)
       ELSE LET name == IF request.payload.name # Missing
                        THEN request.payload.name
                        ELSE ingredients[request.pk].name
            IN /\ ingredients' = [ingredients EXCEPT ![request.pk].name = name]
               /\ UNCHANGED <<recipes, nextRecipeId, nextIngredientId>>
               /\ Reply(200, [id |-> request.pk, name |-> name])

IngredientUpdate == UpdateIngredient("update")

IngredientPartialUpdate == UpdateIngredient("partial_update")

\* DELETE /ingredients/{pk}/: the row and its links to recipes are deleted.
IngredientDestroy ==
    /\ Pending("ingredient", "destroy")
    /\ IF IngredientRefused(TRUE) # 0
       THEN UNCHANGED db /\ Reply(IngredientRefused(TRUE), NoBody)
       ELSE /\ ingredients' =
                  [i \in DOMAIN ingredients \ {request.pk} |-> ingredients[i]]
            /\ recipes' = [r \in DOMAIN recipes |->
                             [recipes[r] EXCEPT !.ingredients = @ \ {request.pk}]]
            /\ UNCHANGED <<nextRecipeId, nextIngredientId>>
            /\ Reply(204, NoBody)

---------------------------------------------------------------------------
(* The requests clients send *)

RecipeRequests(U, LQ, DQ, CP, UP, IP) ==
    {Req("recipe", "list", u, 0, q, NoPayload) : u \in U, q \in LQ}
    \cup {Req("recipe", "create", u, 0, Absent, p) : u \in U, p \in CP}
    \cup {Req("recipe", "retrieve", u, pk, q, NoPayload) :
             u \in U, pk \in RecipePks, q \in DQ}
    \cup {Req("recipe", "update", u, pk, q, p) :
             u \in U, pk \in RecipePks, q \in DQ, p \in UP}
    \cup {Req("recipe", "partial_update", u, pk, q, p) :
             u \in U, pk \in RecipePks, q \in DQ, p \in UP}
    \cup {Req("recipe", "destroy", u, pk, q, NoPayload) :
             u \in U, pk \in RecipePks, q \in DQ}
    \cup {Req("recipe", "upload_image", u, pk, q, p) :
             u \in U, pk \in RecipePks, q \in DQ, p \in IP}

IngredientRequests(U, P) ==
    {Req("ingredient", "list", u, 0, Absent, NoPayload) : u \in U}
    \cup {Req("ingredient", "create", u, 0, Absent, p) : u \in U, p \in P}
    \cup {Req("ingredient", "retrieve", u, pk, Absent, NoPayload) :
             u \in U, pk \in IngredientPks}
    \cup {Req("ingredient", "update", u, pk, Absent, p) :
             u \in U, pk \in IngredientPks, p \in P}
    \cup {Req("ingredient", "partial_update", u, pk, Absent, p) :
             u \in U, pk \in IngredientPks, p \in P}
    \cup {Req("ingredient", "destroy", u, pk, Absent, NoPayload) :
             u \in U, pk \in IngredientPks}

\* request.query_params.get("ingredients"): None, or a string of characters.
NoQuery == {Absent}
MalformedQueries == {Absent, Given(<<"a">>)}
DetailQueries == MalformedQueries \cup {Given(<<"1">>)}
ListQueries == DetailQueries \cup {Given(<<>>)}
FilterQueries == Optional(StringsUpTo(MaxQsLen))

RecipePayloads(titles, names, users) ==
    [title : titles \cup {Missing},
     ingredients : Optional(names),
     user : users \cup {Missing}]
IngredientPayloads == [name : Names \cup {Missing}]
ImagePayloads == [image : Images \cup {NotImage}]

\* What an unauthenticated client sends: every endpoint, one payload each.
AnonPayload == [title |-> "t1", ingredients |-> Given(<<"a">>), user |-> Missing]
AnonRequests(LQ) ==
    RecipeRequests({Anon}, LQ, LQ, {AnonPayload}, {AnonPayload},
                   [image : {"img1"}])
    \cup IngredientRequests({Anon}, [name : {"a"}])

\* Spec: every endpoint with every payload, by both users; uploads of valid
\* images are left to SpecImage and long filter strings to SpecFilter.
Requests ==
    RecipeRequests(Users, ListQueries, MalformedQueries,
                   RecipePayloads(Titles, NameSeqs, Users),
                   RecipePayloads(Titles, NameSeqs, {}),
                   [image : {NotImage}])
    \cup IngredientRequests(Users, IngredientPayloads)
    \cup AnonRequests(NoQuery)

\* SpecImage: uploads of images and of non-images, to recipes of one title.
ImageRequests ==
    RecipeRequests(Users, NoQuery, DetailQueries,
                   RecipePayloads({"t1"}, {<<"a">>}, {}),
                   RecipePayloads({"t1"}, {<<"a">>}, {}),
                   ImagePayloads)
    \cup IngredientRequests(Users, [name : {"a"}])
    \cup AnonRequests(NoQuery)

\* SpecFilter: every filter string of up to MaxQsLen characters, over recipes
\* of one title created with every list of ingredient names, then cleared of
\* ingredients or re-linked to one.
FilterRequests ==
    RecipeRequests(Users, FilterQueries, {}, {}, {}, {})
    \cup {Req("recipe", "create", u, 0, Absent, p) :
             u \in Users, p \in [title : {"t1"}, ingredients : Optional(NameSeqs),
                                 user : {Missing}]}
    \cup {Req("recipe", "partial_update", u, pk, Absent, p) :
             u \in Users, pk \in RecipePks,
             p \in [title : {Missing},
                    ingredients : {Given(<<>>), Given(<<"b">>)},
                    user : {Missing}]}
    \cup AnonRequests({Absent, Given(<<"a">>)})

---------------------------------------------------------------------------
(* The API: any of the requests, by any client, at any time *)

API(requests) ==
    \/ SendRequest(requests)
    \/ RecipeList
    \/ RecipeCreate
    \/ RecipeRetrieve
    \/ RecipeUpdate
    \/ RecipePartialUpdate
    \/ RecipeDestroy
    \/ upload_image
    \/ IngredientList
    \/ IngredientCreate
    \/ IngredientRetrieve
    \/ IngredientUpdate
    \/ IngredientPartialUpdate
    \/ IngredientDestroy
    \/ ReceiveResponse

Next == API(Requests)
NextImage == API(ImageRequests)
NextFilter == API(FilterRequests)

Spec == Init /\ [][Next]_vars
SpecImage == Init /\ [][NextImage]_vars
SpecFilter == Init /\ [][NextFilter]_vars

---------------------------------------------------------------------------
(* Vocabulary of the properties *)

Responded == resp # NoResponse
Handling(view, ops) == request.view = view /\ request.op \in ops /\ resp = NoResponse
Handled(view, ops) == request.view = view /\ request.op \in ops /\ Responded
Answered == resp = NoResponse /\ resp' # NoResponse

RecipeDetailOps == {"retrieve", "update", "partial_update", "destroy", "upload_image"}
IngredientDetailOps == {"update", "partial_update", "destroy"}

\* The recipes of user u.
RecipesOf(u) == {r \in DOMAIN recipes : recipes[r].user = u}

\* s lists exactly the members of S, each once, in descending order.
IsDescendingListOf(s, S) ==
    /\ Range(s) = S
    /\ \A i, j \in DOMAIN s : i < j => s[i] > s[j]

\* A comma-separated list of integer literals: digits and commas, no empty token.
IsIdList(s) ==
    /\ s # <<>>
    /\ \A i \in DOMAIN s : s[i] \in Digits \cup {","}
    /\ s[1] # ","
    /\ s[Len(s)] # ","
    /\ \A i \in 1..(Len(s) - 1) : ~(s[i] = "," /\ s[i + 1] = ",")

DecimalDigit(d) == <<"0", "1", "2", "3", "4", "5", "6", "7", "8", "9">>[d + 1]
Decimal(i) ==
    IF i < 10 THEN <<DecimalDigit(i)>>
    ELSE <<DecimalDigit(i \div 10), DecimalDigit(i % 10)>>

\* Id i is one of the items of the comma-separated list s.
Lists(s, i) ==
    LET padded == <<",">> \o s \o <<",">>
        item == <<",">> \o Decimal(i) \o <<",">>
    IN \E k \in 1..(Len(padded) - Len(item) + 1) :
          SubSeq(padded, k, k + Len(item) - 1) = item

MatchingRecipesOf(u, s) ==
    {r \in RecipesOf(u) : \E i \in recipes[r].ingredients : Lists(s, i)}

---------------------------------------------------------------------------
(* C1 *)

\* C1: a recipe list answered to authenticated user U, with or without an
\* `ingredients` filter, holds only recipes that exist and are owned by U.
C1_ListOwnerScoped ==
    (Handled("recipe", {"list"}) /\ request.user \in Users) =>
        /\ resp.status \in {200, 500}
        /\ resp.status = 500 => resp.body = NoBody
        /\ resp.status = 200 =>
              \A i \in DOMAIN resp.body.results :
                  /\ resp.body.results[i] \in DOMAIN recipes
                  /\ recipes[resp.body.results[i]].user = request.user

\* A filtered list was answered with a recipe of the requester while a recipe
\* of another user is linked to an ingredient named in the filter.
C1_Witness ==
    /\ Handled("recipe", {"list"})
    /\ request.user \in Users
    /\ resp.status = 200
    /\ request.q # Absent
    /\ resp.body.results # <<>>
    /\ \E r \in DOMAIN recipes :
          /\ recipes[r].user # request.user
          /\ \E i \in recipes[r].ingredients : Lists(request.q[1], i)

---------------------------------------------------------------------------
(* C4 *)

\* C4: a recipe list requested by user U with `ingredients` a comma-separated
\* list of integer ids is answered 200 with exactly U's recipes linked to at
\* least one listed ingredient, each once, in descending id order; with the
\* parameter absent or empty, with all of U's recipes in descending id order.
C4_IngredientFilter ==
    (Handled("recipe", {"list"}) /\ request.user \in Users) =>
        /\ (request.q = Absent \/ request.q = Given(<<>>)) =>
              /\ resp.status = 200
              /\ IsDescendingListOf(resp.body.results, RecipesOf(request.user))
        /\ (request.q # Absent /\ IsIdList(request.q[1])) =>
              /\ resp.status = 200
              /\ IsDescendingListOf(resp.body.results,
                                    MatchingRecipesOf(request.user, request.q[1]))

\* A filter naming two ingredients was answered with two recipes, one of them
\* linked to both ingredients, while the requester has a recipe left out.
C4_Witness ==
    /\ Handled("recipe", {"list"})
    /\ request.user \in Users
    /\ request.q # Absent
    /\ IsIdList(request.q[1])
    /\ resp.status = 200
    /\ \E r \in Range(resp.body.results) :
          Cardinality({i \in recipes[r].ingredients : Lists(request.q[1], i)}) > 1
    /\ Range(resp.body.results) # RecipesOf(request.user)

---------------------------------------------------------------------------
(* C10 *)

\* A non-empty filter string with a token that is not an integer literal.
IsMalformed(s) == s # <<>> /\ ~IsIdList(s)

\* C10, as stated: every recipe list request with a malformed non-empty
\* `ingredients` parameter is answered 500.
C10_AsStated ==
    (Handled("recipe", {"list"}) /\ request.q # Absent /\ IsMalformed(request.q[1]))
        => resp.status = 500

C10_Answer ==
    (/\ Handled("recipe", {"list"})
     /\ request.user \in Users
     /\ request.q # Absent
     /\ IsMalformed(request.q[1]))
        => (resp.status = 500 /\ resp.body = NoBody)

C10_Step ==
    (/\ Handling("recipe", {"list"})
     /\ request.q # Absent
     /\ IsMalformed(request.q[1]))
        => UNCHANGED db

\* C10, amended: a recipe list request by an authenticated user with a
\* malformed non-empty `ingredients` parameter is answered 500 with no recipe
\* list, not even one filtered on the valid tokens, and changes nothing stored.
C10_MalformedFilter == []C10_Answer /\ [][C10_Step]_vars

\* A filter with a valid token that matches a recipe of the requester and an
\* invalid token was answered.
C10_Witness ==
    /\ Handled("recipe", {"list"})
    /\ request.user \in Users
    /\ request.q # Absent
    /\ IsMalformed(request.q[1])
    /\ \E r \in RecipesOf(request.user) :
          \E i \in recipes[r].ingredients : Lists(request.q[1], i)

---------------------------------------------------------------------------
(* C2 *)

C2_Answer == (Responded /\ request.user = Anon) => resp.status = 401

C2_Step == (request.user = Anon) => UNCHANGED db

\* C2: every endpoint of the two viewsets answers an unauthenticated request
\* with 401, and the request leaves recipes, ingredients, links and images
\* as they were.
C2_Unauthenticated == []C2_Answer /\ [][C2_Step]_vars

\* An unauthenticated DELETE of an existing recipe with an ingredient was
\* answered.
C2_Witness ==
    /\ Handled("recipe", {"destroy"})
    /\ request.user = Anon
    /\ request.pk \in DOMAIN recipes
    /\ recipes[request.pk].ingredients # {}

---------------------------------------------------------------------------
(* C3 *)

NotOwnRecipe == request.pk \notin RecipesOf(request.user)
NotOwnIngredient ==
    request.pk \notin {i \in DOMAIN ingredients : ingredients[i].user = request.user}

C3_Step ==
    /\ (/\ Handling("recipe", RecipeDetailOps)
        /\ request.user \in Users
        /\ NotOwnRecipe
        /\ Answered)
           => (resp'.status = 404 /\ UNCHANGED db)
    /\ (/\ Handling("ingredient", IngredientDetailOps)
        /\ request.user \in Users
        /\ NotOwnIngredient
        /\ Answered)
           => (resp'.status = 404 /\ UNCHANGED db)

\* C3: a detail operation by authenticated user U on a recipe (or, for PUT,
\* PATCH and DELETE, an ingredient) that does not exist or is not U's is
\* answered 404 and changes nothing stored.
C3_NotFound == [][C3_Step]_vars

---------------------------------------------------------------------------
(* C5 *)

C5_Step ==
    (/\ Handling("recipe", {"partial_update"})
     /\ request.payload.ingredients # Absent
     /\ Answered
     /\ resp'.status = 200)
        => LET pk == request.pk
               N == Range(request.payload.ingredients[1])
               owner == recipes[pk].user
               linked == recipes'[pk].ingredients
           IN /\ request.user = owner
              /\ recipes'[pk].user = owner
              /\ linked \subseteq DOMAIN ingredients'
              /\ \A n \in N :
                    Cardinality({i \in linked : ingredients'[i].name = n}) = 1
              /\ \A i \in linked :
                    /\ ingredients'[i].name \in N
                    /\ ingredients'[i].user = owner
                    /\ i \in DOMAIN ingredients => ingredients'[i] = ingredients[i]
              /\ N = {} => linked = {}
              /\ \A i \in DOMAIN ingredients :
                    i \in DOMAIN ingredients' /\ ingredients'[i] = ingredients[i]
              /\ DOMAIN recipes' = DOMAIN recipes
              /\ \A r \in DOMAIN recipes \ {pk} : recipes'[r] = recipes[r]

\* C5: a PATCH of a recipe answered 200 whose payload has an `ingredients`
\* list of names N is the owner's and leaves the recipe linked to exactly one
\* ingredient per name in N, each owned by the recipe's owner and either
\* unchanged from before or new, and to no other ingredient; no ingredient is
\* deleted or changed and no other recipe changes.
C5_PatchReplacesIngredients == [][C5_Step]_vars

\* A PATCH naming one ingredient was answered 200 and left the recipe with
\* that ingredient alone, while its owner has another ingredient and another
\* recipe that still has ingredients.
C5_Witness ==
    /\ Handled("recipe", {"partial_update"})
    /\ resp.status = 200
    /\ request.payload.ingredients # Absent
    /\ Len(request.payload.ingredients[1]) = 1
    /\ Cardinality(recipes[request.pk].ingredients) = 1
    /\ \E i \in DOMAIN ingredients :
          /\ ingredients[i].user = request.user
          /\ i \notin recipes[request.pk].ingredients
    /\ \E r \in RecipesOf(request.user) \ {request.pk} : recipes[r].ingredients # {}

\* A PATCH with an empty `ingredients` list was answered 200 while the owner
\* has ingredients.
C5_WitnessCleared ==
    /\ Handled("recipe", {"partial_update"})
    /\ resp.status = 200
    /\ request.payload.ingredients = Given(<<>>)
    /\ \E i \in DOMAIN ingredients : ingredients[i].user = request.user

---------------------------------------------------------------------------
(* C6 *)

C6_Step ==
    (/\ Handling("recipe", {"upload_image"})
     /\ request.pk \in RecipesOf(request.user)
     /\ Answered)
        => /\ is_valid(request.payload) =>
                 /\ resp'.status = 200
                 /\ "image" \in DOMAIN resp'.body
                 /\ recipes' = [recipes EXCEPT ![request.pk].image =
                                   request.payload.image]
           /\ ~is_valid(request.payload) =>
                 /\ resp'.status = 400
                 /\ recipes' = recipes
           /\ ingredients' = ingredients

\* C6: an upload to a recipe by its owner is answered 200 with the `image`
\* field and stores the image when the payload is a valid image, and is
\* answered 400 and stores nothing when it is not; no other recipe changes.
C6_UploadImage == [][C6_Step]_vars

---------------------------------------------------------------------------
(* C7 *)

C7_Created ==
    (/\ Handling("recipe", {"create"})
     /\ request.user \in Users
     /\ Answered
     /\ resp'.status = 201)
        => \E new \in DOMAIN recipes' \ DOMAIN recipes :
              /\ DOMAIN recipes' = DOMAIN recipes \cup {new}
              /\ \A r \in 1..MaxRecipes : r >= nextRecipeId => r \notin DOMAIN recipes
              /\ new >= nextRecipeId
              /\ resp'.body.id = new
              /\ recipes'[new].user = request.user
              /\ recipes'[new].title = request.payload.title
              /\ {ingredients'[i].name : i \in recipes'[new].ingredients}
                    = (IF request.payload.ingredients = Absent THEN {}
                       ELSE Range(request.payload.ingredients[1]))
              /\ \A r \in DOMAIN recipes : recipes'[r] = recipes[r]

C7_OwnerKept ==
    \A r \in DOMAIN recipes :
        /\ recipes[r].user \in Users
        /\ r \in DOMAIN recipes' => recipes'[r].user = recipes[r].user

\* C7: a POST on /recipes/ by authenticated user U answered 201 adds exactly
\* one recipe, under a fresh id, owned by U whatever the payload says and with
\* the payload's fields; every recipe has one owner, a user, for its lifetime.
C7_CreateOwner == [][C7_Created /\ C7_OwnerKept]_vars

\* A POST whose payload names another user was answered 201.
C7_Witness ==
    /\ Handled("recipe", {"create"})
    /\ resp.status = 201
    /\ request.payload.user \in Users \ {request.user}
    /\ request.payload.title = "t2"
    /\ Cardinality(DOMAIN recipes) = 2

---------------------------------------------------------------------------
(* C8 *)

SameIngredient(ings, i, j) ==
    ings[i].user = ings[j].user /\ ings[i].name = ings[j].name

Unique(ings) ==
    \A i, j \in DOMAIN ings : SameIngredient(ings, i, j) => i = j

C8_Step ==
    /\ (Unique(ingredients) /\ ~Handling("ingredient", {"update", "partial_update"}))
          => Unique(ingredients')
    /\ \A i \in DOMAIN ingredients' \ DOMAIN ingredients :
          \A j \in DOMAIN ingredients' : SameIngredient(ingredients', i, j) => i = j
    /\ (/\ Handling("recipe", {"create", "update", "partial_update"})
        /\ request.payload.ingredients # Absent
        /\ Answered
        /\ resp'.status \in {200, 201})
          => \A n \in Range(request.payload.ingredients[1]) :
                \A i \in DOMAIN ingredients :
                    (ingredients[i].user = request.user /\ ingredients[i].name = n)
                        => \E r \in DOMAIN recipes' : i \in recipes'[r].ingredients

---------------------------------------------------------------------------
(* C9 *)

C9_Answer ==
    /\ (Handled("ingredient", {"create"}) /\ request.user \in Users)
          => resp.status = 405
    /\ (Handled("ingredient", {"list"}) /\ request.user \in Users)
          => /\ resp.status = 200
             /\ Range(resp.body.results) =
                    {i \in DOMAIN ingredients : ingredients[i].user = request.user}

C9_Step ==
    /\ request.view = "ingredient" => DOMAIN ingredients' \subseteq DOMAIN ingredients
    /\ \A i \in DOMAIN ingredients' \ DOMAIN ingredients :
          /\ Handling("recipe", {"create", "update", "partial_update"})
          /\ request.payload.ingredients # Absent
          /\ ingredients'[i].name \in Range(request.payload.ingredients[1])
          /\ ingredients'[i].user = request.user

\* C9: /ingredients/ has list, update and delete but no create (POST is
\* answered 405); no request to it adds an ingredient; an ingredient appears
\* only in a recipe create or update that names it, owned by the requester;
\* the list holds exactly the requester's ingredients.
C9_NoIngredientCreate == []C9_Answer /\ [][C9_Step]_vars

\* An ingredient list left out an ingredient of another user and held one
\* that a recipe update had created.
C9_Witness ==
    /\ Handled("ingredient", {"list"})
    /\ resp.status = 200
    /\ resp.body.results # <<>>
    /\ \E i \in DOMAIN ingredients : ingredients[i].user # request.user
    /\ \E r \in DOMAIN recipes : recipes[r].ingredients # {}

====
